---- MODULE Spec2Model ----
(***************************************************************************)
(* RiboRez in-silico amplification: the primer locator                     *)
(* (find_primer_positions) and the amplicon extractor (main) of            *)
(* riborez/InSilico_amplification_hammingfixed_Server.py.                  *)
(*                                                                         *)
(* A Python str is a TLA+ sequence of one-character strings; Python        *)
(* indices are 0-based, TLA+ sequences 1-based, so s[k] in Python is       *)
(* s[k + 1] here.                                                          *)
(***************************************************************************)
EXTENDS Integers, Sequences, FiniteSets, TLC

VARIABLES
    seq,          \* the aligned sequence being processed (may contain gaps)
    primer_seq,   \* locator call: the primer pattern
    start_range,  \* locator call: start of the expected range
    end_range,    \* locator call: end of the expected range
    is_reverse,   \* locator call: orientation flag
    result,       \* locator call: the returned tuple, NoResult before the call
    cand,         \* extractor: the candidate primer pair (one item of the JSON)
    f_result,     \* extractor: the tuple returned for the forward primer
    r_result,     \* extractor: the tuple returned for the reverse primer
    row,          \* extractor: the CSV row written for seq, NoRow if none
    seen,         \* extractor: sequences of seq_dict iterated for the candidate
    matches,      \* extractor: rows written for the candidate (matches)
    rows,         \* analyzer: the (Header, AmpliconSequence) rows of one CSV
    summary,      \* analyzer: the summary row built for that CSV
    df,           \* selector: the summary rows of the file being read
    output_rows,  \* selector: the best rows collected so far
    files,        \* selector: files visited so far
    task,         \* worker pool: state of each gene directory's task
    successful_amplification,  \* worker pool: tasks counted as successful
    failed_amplification,      \* worker pool: tasks counted as failed
    logfile,      \* log: the content of the log file
    writer,       \* log: where each thread stands inside log_message
    mtask,        \* run: state of each gene directory's sequence-mapping task
    successful_mapping,  \* run: mapping tasks counted as successful
    failed_mapping,      \* run: mapping tasks counted as failed
    gene,         \* one gene directory inside run_amplification_analysis
    pc            \* position of the program

\* the extractor's counters, the analyzer's, the selector's and the pool's state
countVars == <<seen, matches>>
anaVars == <<rows, summary>>
selVars == <<df, output_rows, files>>
poolVars == <<task, successful_amplification, failed_amplification>>
logVars == <<logfile, writer>>
\* the state of the whole-run orchestration beyond the pool's first step
mapVars == <<mtask, successful_mapping, failed_mapping>>
runVars == <<logVars, mapVars, gene>>

vars == <<seq, primer_seq, start_range, end_range, is_reverse, result,
         cand, f_result, r_result, row, countVars, anaVars, selVars, poolVars,
         runVars, pc>>

(***************************************************************************)
(* Bounds of the model.                                                    *)
(***************************************************************************)
MaxSeqLen == 3      \* longest aligned sequence
MaxPrimerLen == 2   \* longest primer pattern
MaxPos == 2         \* largest coordinate of a candidate's expected ranges
GapPrimerLen == 4   \* longest primer of the gap-insertion scenario
MaxRun == 2         \* longest run of gaps inserted into a primer occurrence
MaxFlank == 1       \* longest flank around the primer of the gap-insertion scenario
MaxSeqs == 2        \* most aligned sequences of one alignment
MaxRows == 4        \* most rows of one amplicon CSV
MaxAmpLen == 4      \* longest AmpliconSequence of an amplicon CSV
MaxTs == 2          \* most T's ending an AmpliconSequence of an amplicon CSV
MaxCands == 3       \* most candidate rows of one processed_amplicon.csv
MaxFiles == 2       \* most processed_amplicon.csv files under the parent folder
MaxGenes == 3       \* most gene directories of the input folder
MaxWorkers == 2     \* most threads of the pool
MaxWriters == 2     \* most threads logging at the same time
MaxMsgs == 2        \* most messages one thread logs
MaxUnits == 2       \* most gene directories of a whole run
MaxJsons == 2       \* most JSON files of a gene directory
MaxCount == 2       \* most amplicons of at most 500 bp in a companion CSV
MaxData == 3        \* most candidates of a candidate description (JSON)
MaxHead == 2        \* longest stretch of bases before and after the filler of a long sequence

Bases == {"A", "T"}
Gap == "-"
Alphabet == Bases \cup {Gap}

RECURSIVE StrsUpTo(_, _)
StrsUpTo(S, n) ==
    IF n = 0 THEN {<<>>}
    ELSE LET shorter == StrsUpTo(S, n - 1)
         IN  shorter \cup {Append(s, c) : s \in {t \in shorter : Len(t) = n - 1}, c \in S}

AlignedSeqs == StrsUpTo(Alphabet, MaxSeqLen)
Patterns == StrsUpTo(Bases, MaxPrimerLen)
Primers == Patterns \ {<<>>}

(***************************************************************************)
(* Python built-ins used by the code.                                      *)
(***************************************************************************)
Max(a, b) == IF a >= b THEN a ELSE b
Min(a, b) == IF a <= b THEN a ELSE b

\* A slice bound as Python normalises it: negative counts from the end, then
\* it is clipped to 0..len.
SliceIndex(k, n) == IF k < 0 THEN Max(k + n, 0) ELSE Min(k, n)

\* s[a:b]
PySlice(s, a, b) ==
    LET lo == SliceIndex(a, Len(s))
        hi == SliceIndex(b, Len(s))
    IN  IF lo >= hi THEN <<>> ELSE SubSeq(s, lo + 1, hi)

\* s.replace("-", "")
RECURSIVE StripGaps(_)
StripGaps(s) ==
    IF s = <<>> THEN <<>>
    ELSE IF Head(s) = Gap THEN StripGaps(Tail(s))
    ELSE <<Head(s)>> \o StripGaps(Tail(s))

\* v in s  (substring test)
IsSubstring(v, s) ==
    \E i \in 0..(Len(s) - Len(v)) : SubSeq(s, i + 1, i + Len(v)) = v

Complement(c) ==
    CASE c = "A" -> "T"
      [] c = "C" -> "G"
      [] c = "G" -> "C"
      [] c = "T" -> "A"
      [] OTHER -> c

reverse_complement(s) == [k \in 1..Len(s) |-> Complement(s[Len(s) + 1 - k])]

(***************************************************************************)
(* find_primer_positions (the locator).                                    *)
(*                                                                         *)
(* The returned tuple (primer_start, primer_end, found) is the record      *)
(* [start, end, found, raised]: start and end are None or Some(n), and     *)
(* raised is TRUE when the call ends in an IndexError instead of           *)
(* returning.                                                              *)
(***************************************************************************)
None == <<>>
Some(n) == <<n>>
Val(x) == x[1]

\* return None, None, False  (line 141)
NotFound == [start |-> None, end |-> None, found |-> FALSE, raised |-> FALSE]
\* return actual_start, actual_end, True  (lines 91, 117, 139)
Found(s, e) == [start |-> Some(s), end |-> Some(e), found |-> TRUE, raised |-> FALSE]
\* an IndexError leaves the function
Raised == [start |-> None, end |-> None, found |-> FALSE, raised |-> TRUE]

\* mutant of Approaches: the pattern as-is tried before its reverse complement
ApproachesAsIsFirst(p, rev) ==
    <<p>> \o (IF rev THEN <<reverse_complement(p), p>> ELSE <<>>)

\* approaches  (lines 43-54)
Approaches(p, rev) ==
    (IF rev THEN <<reverse_complement(p)>> ELSE <<>>)
        \o <<p>>
        \o (IF rev THEN <<p>> ELSE <<>>)

\* the test of one alignment column against one primer character: a gap is
\* skipped by `continue`, any other character must be equal  (lines 75-81)
ColumnMatches(primer_char, seq_char) == seq_char = Gap \/ primer_char = seq_char

\* the inner loop `for j, primer_char in enumerate(search_seq)` from index j:
\* "match", "mismatch", or "IndexError" when range_seq[i + j] is out of range
RECURSIVE CompareFrom(_, _, _, _)
CompareFrom(search_seq, range_seq, i, j) ==
    IF j >= Len(search_seq) THEN "match"
    ELSE IF i + j >= Len(range_seq) THEN "IndexError"
    ELSE IF ~ColumnMatches(search_seq[j + 1], range_seq[i + j + 1]) THEN "mismatch"
    ELSE CompareFrom(search_seq, range_seq, i, j + 1)

\* mutant of ScanLimit: range(len(range_seq) + 1), the primer's length forgotten
ScanLimitWholeWindow(search_seq, range_seq) == Len(range_seq) + 1

\* the number of start indices tried: range(len(range_seq) - len(search_seq) + 1)
ScanLimit(search_seq, range_seq) == Len(range_seq) - Len(search_seq) + 1

\* the outer loop `for i in range(...)` from index i: the first matching local
\* index, -1 when there is none, raised when the comparison raises
RECURSIVE ScanFrom(_, _, _)
ScanFrom(search_seq, range_seq, i) ==
    IF i >= ScanLimit(search_seq, range_seq) THEN [pos |-> -1, raised |-> FALSE]
    ELSE LET c == CompareFrom(search_seq, range_seq, i, 0)
         IN  IF c = "match" THEN [pos |-> i, raised |-> FALSE]
             ELSE IF c = "IndexError" THEN [pos |-> -1, raised |-> TRUE]
             ELSE ScanFrom(search_seq, range_seq, i + 1)

\* mutant of ActualEnd: the end taken one past the last primer position
ActualEndExclusive(offset, i, search_seq) == offset + i + Len(search_seq)

\* actual_end = offset + i + len(search_seq) - 1  (lines 87, 116, 138)
ActualEnd(offset, i, search_seq) == offset + i + Len(search_seq) - 1

\* one pass: `for search_seq in approaches` from the k-th approach over the
\* window range_seq, whose first character is at coordinate offset; NotFound
\* when no approach matches in the window
RECURSIVE PassFrom(_, _, _, _)
PassFrom(approaches, k, range_seq, offset) ==
    IF k > Len(approaches) THEN NotFound
    ELSE LET r == ScanFrom(approaches[k], range_seq, 0)
         IN  IF r.raised THEN Raised
             ELSE IF r.pos # -1
                  THEN Found(offset + r.pos, ActualEnd(offset, r.pos, approaches[k]))
             ELSE PassFrom(approaches, k + 1, range_seq, offset)

\* the pad of the expanded range  (lines 95-96)
ExpandBy == 20

\* range_seq = seq[start_range:end_range + 1]  (line 59)
ExactWindow(s, sr, er) == PySlice(s, sr, er + 1)

\* mutant of ExpandedStart: the start of the expanded range not clipped at 0
ExpandedStartUnclipped(sr) == sr - ExpandBy

\* expanded_start, expanded_end and the slice between them  (lines 95-99)
ExpandedStart(sr) == Max(0, sr - ExpandBy)

\* mutant of ExpandedEnd: the expanded range runs to the end of the sequence
ExpandedEndOfSequence(s, er) == Len(s) - 1

ExpandedEnd(s, er) == Min(Len(s) - 1, er + ExpandBy)
ExpandedWindow(s, sr, er) == PySlice(s, ExpandedStart(sr), ExpandedEnd(s, er) + 1)

\* mutant of find_primer_positions: the whole-sequence pass left out
find_primer_positions_two_passes(p, s, sr, er, rev) ==
    LET approaches == Approaches(p, rev)
        pass1 == PassFrom(approaches, 1, ExactWindow(s, sr, er), sr)
        pass2 == PassFrom(approaches, 1, ExpandedWindow(s, sr, er), ExpandedStart(sr))
    IN  IF pass1.found \/ pass1.raised THEN pass1
        ELSE pass2

find_primer_positions(p, s, sr, er, rev) ==
    LET approaches == Approaches(p, rev)
        pass1 == PassFrom(approaches, 1, ExactWindow(s, sr, er), sr)
        pass2 == PassFrom(approaches, 1, ExpandedWindow(s, sr, er), ExpandedStart(sr))
        pass3 == PassFrom(approaches, 1, s, 0)
    IN  IF pass1.found \/ pass1.raised THEN pass1
        ELSE IF pass2.found \/ pass2.raised THEN pass2
        ELSE pass3

(***************************************************************************)
(* The locator on its own: Init draws one call's arguments, Locate makes   *)
(* the call.                                                               *)
(***************************************************************************)
NoCand == [forward_deg |-> <<>>, forward_variants |-> <<>>,
           reverse_deg |-> <<>>, reverse_variants |-> <<>>,
           fstart |-> 0, fend |-> 0, rstart |-> 0, rend |-> 0]
NoRow == [ForwardPrimer |-> <<>>, ReversePrimer |-> <<>>,
          AmpliconStart |-> 0, AmpliconEnd |-> 0,
          AmpliconSequence |-> <<>>, DashlessSequence |-> <<>>,
          ForwardVariant |-> <<>>, ReverseVariant |-> <<>>, ErrorStatus |-> ""]

\* the summary row before any CSV was analysed
NoSummary == [NumInputSequences |-> 0, NumUniqueASVs |-> 0,
              MedianHammingDistance |-> [num |-> 0, den |-> 1],
              AmpliconLength |-> 0, asv_to_headers |-> <<>>]

\* the parts of the state a component does not use keep their initial values
CountIdle == seen = 0 /\ matches = 0
AnaIdle == rows = <<>> /\ summary = NoSummary
SelIdle == df = <<>> /\ output_rows = <<>> /\ files = 0
PoolIdle == task = <<>> /\ successful_amplification = 0 /\ failed_amplification = 0
LogIdle == logfile = <<>> /\ writer = <<>>
MapIdle == mtask = <<>> /\ successful_mapping = 0 /\ failed_mapping = 0
\* run_amplification_analysis not entered
NoGene ==
    [all_files |-> <<>>, fasta_file |-> FALSE, max_amplicons |-> -1, best_json |-> 0,
     amplify_called |-> FALSE, data |-> <<>>, i |-> 0, written |-> {},
     analysed |-> {}, returned |-> "none"]
RunIdle == LogIdle /\ MapIdle /\ gene = NoGene

\* coordinates a caller may pass: below 0, inside the sequence, past its end,
\* and one so far past the end that the expanded range misses the sequence too
Positions == (0 - 2)..(MaxSeqLen + 1) \cup {MaxSeqLen + ExpandBy + 1}

InitLocate ==
    /\ seq \in AlignedSeqs
    /\ primer_seq \in Patterns
    /\ start_range \in Positions
    /\ end_range \in Positions
    /\ is_reverse \in BOOLEAN
    /\ result = NotFound
    /\ cand = NoCand
    /\ f_result = NotFound
    /\ r_result = NotFound
    /\ row = NoRow
    /\ CountIdle /\ AnaIdle /\ SelIdle /\ PoolIdle /\ RunIdle
    /\ pc = "call"

Locate ==
    /\ pc = "call"
    /\ result' = find_primer_positions(primer_seq, seq, start_range, end_range, is_reverse)
    /\ pc' = "returned"
    /\ UNCHANGED <<seq, primer_seq, start_range, end_range, is_reverse,
                   cand, f_result, r_result, row>>
    /\ UNCHANGED <<countVars, anaVars, selVars, poolVars>>
    /\ UNCHANGED runVars

NextLocate == Locate

SpecLocate == InitLocate /\ [][NextLocate]_vars

(***************************************************************************)
(* The locator on sequences longer than the pad of the expanded range: a   *)
(* head and a tail of bases around a filler of ExpandBy positions that no  *)
(* primer character equals, so that the exact range, the expanded range    *)
(* and the whole sequence are three different windows.                     *)
(***************************************************************************)
Filler == [k \in 1..ExpandBy |-> "G"]
LongSeqs ==
    {head \o Filler \o tail : head \in StrsUpTo(Bases, MaxHead),
                              tail \in StrsUpTo(Bases, MaxHead)}

\* expected ranges: at the start of the head, and far enough into the
\* sequence for the expanded range to begin inside or just after the head
RangeStarts == {0, ExpandBy + MaxHead - 1, ExpandBy + MaxHead}
RangeWidths == {0, 1}

InitWindow ==
    /\ seq \in LongSeqs
    /\ primer_seq \in Primers
    /\ start_range \in RangeStarts
    /\ end_range \in {start_range + w : w \in RangeWidths}
    /\ is_reverse \in BOOLEAN
    /\ result = NotFound
    /\ cand = NoCand
    /\ f_result = NotFound
    /\ r_result = NotFound
    /\ row = NoRow
    /\ CountIdle /\ AnaIdle /\ SelIdle /\ PoolIdle /\ RunIdle
    /\ pc = "call"

SpecWindow == InitWindow /\ [][NextLocate]_vars

(***************************************************************************)
(* main: the body of `for header, seq in seq_dict.items()` for one         *)
(* candidate primer pair and one aligned sequence  (lines 191-265).        *)
(***************************************************************************)
\* next((v for v in variants if <v or its reverse complement> in slice), None):
\* the index of the first such variant, 0 for None
RECURSIVE FirstVariant(_, _, _, _)
FirstVariant(variants, k, slice, rev) ==
    IF k > Len(variants) THEN 0
    ELSE IF IsSubstring(IF rev THEN reverse_complement(variants[k]) ELSE variants[k], slice)
         THEN k
    ELSE FirstVariant(variants, k + 1, slice, rev)

\* mutant of PrimerSlice: the slice taken over the expected range only
PrimerSliceNoPad(s, rs, re) == StripGaps(PySlice(s, rs, re + 1))

\* f_slice, r_slice  (lines 192-193)
PrimerSlice(s, rs, re) == StripGaps(PySlice(s, Max(0, rs - 1), re + 2))

\* `if not fmatch` / `if not rmatch`: None and the empty string are both falsy
NoVariant(variants, k) == k = 0 \/ variants[k] = <<>>

\* mutant of ErrorStatus: the reverse primer checked before the forward primer
ErrorStatusReverseFirst(f, r) ==
    IF ~r.found THEN "REVERSE_PRIMER_NOT_FOUND"
    ELSE IF ~f.found THEN "FORWARD_PRIMER_NOT_FOUND"
    ELSE IF Val(f.end) >= Val(r.start) THEN "PRIMERS_OVERLAP_OR_WRONG_ORDER"
    ELSE "OK"

\* mutant of ErrorStatus: the overlap test strict, so touching primers pass it
ErrorStatusStrictOverlap(f, r) ==
    IF ~f.found THEN "FORWARD_PRIMER_NOT_FOUND"
    ELSE IF ~r.found THEN "REVERSE_PRIMER_NOT_FOUND"
    ELSE IF Val(f.end) > Val(r.start) THEN "PRIMERS_OVERLAP_OR_WRONG_ORDER"
    ELSE "OK"

\* error_status  (lines 230-236)
ErrorStatus(f, r) ==
    IF ~f.found THEN "FORWARD_PRIMER_NOT_FOUND"
    ELSE IF ~r.found THEN "REVERSE_PRIMER_NOT_FOUND"
    ELSE IF Val(f.end) >= Val(r.start) THEN "PRIMERS_OVERLAP_OR_WRONG_ORDER"
    ELSE "OK"

\* mutant of UseExact: at least one position demanded between the two primers
UseExactStrictGap(f, r) == f.found /\ r.found /\ Val(f.end) + 1 < Val(r.start)

\* mutant of UseExact: the order of the two primers not tested
UseExactIgnoringOrder(f, r) == f.found /\ r.found

\* the test of line 239
UseExact(f, r) == f.found /\ r.found /\ Val(f.end) < Val(r.start)

\* mutant of AmpStart: the amplicon started on the forward primer's last position
AmpStartOnPrimer(f, r, fend) == IF UseExact(f, r) THEN Val(f.end) ELSE fend + 1

\* amp_start, amp_end  (lines 239-247)
AmpStart(f, r, fend) == IF UseExact(f, r) THEN Val(f.end) + 1 ELSE fend + 1
AmpEnd(f, r, rstart) == IF UseExact(f, r) THEN Val(r.start) ELSE rstart

\* the status written: the fallback branch turns a remaining "OK" into
\* "USING_RANGE_BOUNDARIES"  (lines 244-249)
FinalStatus(f, r) ==
    IF ~UseExact(f, r) /\ ErrorStatus(f, r) = "OK" THEN "USING_RANGE_BOUNDARIES"
    ELSE ErrorStatus(f, r)

\* mutant of AmpliconSeqRaw: amp_end taken as an inclusive end
AmpliconSeqRawInclusive(s, amp_start, amp_end) ==
    IF amp_start <= amp_end THEN PySlice(s, amp_start, amp_end + 1) ELSE <<>>

\* amplicon_seq_raw  (line 251)
AmpliconSeqRaw(s, amp_start, amp_end) ==
    IF amp_start < amp_end THEN PySlice(s, amp_start, amp_end) ELSE <<>>

\* the row written to amplicon_i.csv; the row of amplicon_i_dashless.csv is the
\* same with AmpliconSequence replaced by DashlessSequence  (lines 254-263)
Row(c, s, fmatch, rmatch, f, r) ==
    LET amp_start == AmpStart(f, r, c.fend)
        amp_end == AmpEnd(f, r, c.rstart)
        amplicon_seq_raw == AmpliconSeqRaw(s, amp_start, amp_end)
    IN  [ForwardPrimer |-> c.forward_deg,
         ReversePrimer |-> c.reverse_deg,
         AmpliconStart |-> amp_start,
         AmpliconEnd |-> amp_end,
         AmpliconSequence |-> amplicon_seq_raw,
         DashlessSequence |-> StripGaps(amplicon_seq_raw),
         ForwardVariant |-> fmatch,
         ReverseVariant |-> rmatch,
         ErrorStatus |-> FinalStatus(f, r)]

\* the candidates of the model: each primer's expected range is the span of
\* the primer, as the primer-design tool reports it, and each variant list
\* holds one one-base variant
VariantLists == {<<<<b>>>> : b \in Bases}
Candidates ==
    {[forward_deg |-> fd, forward_variants |-> fv,
      reverse_deg |-> rd, reverse_variants |-> rv,
      fstart |-> fs, fend |-> fs + Len(fd) - 1,
      rstart |-> rs, rend |-> rs + Len(rd) - 1] :
        fd \in Primers, fv \in VariantLists, rd \in Primers, rv \in VariantLists,
        fs \in 0..MaxPos, rs \in 0..MaxPos}

\* main is entered: nothing has been read yet
Init ==
    /\ seq = <<>>
    /\ cand = NoCand
    /\ primer_seq = <<>>
    /\ start_range = 0
    /\ end_range = 0
    /\ is_reverse = FALSE
    /\ result = NotFound
    /\ f_result = NotFound
    /\ r_result = NotFound
    /\ row = NoRow
    /\ CountIdle /\ AnaIdle /\ SelIdle /\ PoolIdle /\ RunIdle
    /\ pc = "start"

\* json.load and read_fasta, then the two loops reach one candidate and one
\* aligned sequence  (lines 145-162, 191)
ReadInputs ==
    /\ pc = "start"
    /\ seq' \in AlignedSeqs
    /\ cand' \in Candidates
    /\ pc' = "loop"
    /\ UNCHANGED <<primer_seq, start_range, end_range, is_reverse, result,
                   f_result, r_result, row>>
    /\ UNCHANGED <<countVars, anaVars, selVars, poolVars>>
    /\ UNCHANGED runVars

ProcessSequence ==
    /\ pc = "loop"
    /\ LET f_slice == PrimerSlice(seq, cand.fstart, cand.fend)
           r_slice == PrimerSlice(seq, cand.rstart, cand.rend)
           fk == FirstVariant(cand.forward_variants, 1, f_slice, FALSE)
           rk == FirstVariant(cand.reverse_variants, 1, r_slice, TRUE)
       IN  IF NoVariant(cand.forward_variants, fk)
             THEN \* "No forward match": continue
                  /\ pc' = "skipped"
                  /\ UNCHANGED <<f_result, r_result, row, matches>>
           ELSE IF NoVariant(cand.reverse_variants, rk)
             THEN \* "No reverse match": continue
                  /\ pc' = "skipped"
                  /\ UNCHANGED <<f_result, r_result, row, matches>>
           ELSE LET f == find_primer_positions(cand.forward_deg, seq,
                                               cand.fstart, cand.fend, FALSE)
                    r == find_primer_positions(cand.reverse_deg, seq,
                                               cand.rstart, cand.rend, TRUE)
                IN  /\ f_result' = f
                    /\ r_result' = r
                    /\ row' = Row(cand, seq, cand.forward_variants[fk],
                                  cand.reverse_variants[rk], f, r)
                    /\ matches' = matches + 1
                    /\ pc' = "written"
    /\ seen' = seen + 1
    /\ UNCHANGED <<seq, cand, primer_seq, start_range, end_range, is_reverse, result>>
    /\ UNCHANGED <<anaVars, selVars, poolVars>>
    /\ UNCHANGED runVars

Next == ReadInputs \/ ProcessSequence

Spec == Init /\ [][Next]_vars

\* the loop body always runs to its end: it does no I/O wait and takes no lock
SpecFair == Spec /\ WF_vars(Next)

(***************************************************************************)
(* main over a whole alignment: `for header, seq in seq_dict.items()` for  *)
(* one candidate, up to the append to summary  (lines 167, 191-267).       *)
(***************************************************************************)
\* the candidates of this loop: forward range at the start of the alignment,
\* reverse range at its end, the reverse primer not degenerate
RowCandidates ==
    {c \in Candidates :
        /\ c.fstart = 0
        /\ c.rstart = MaxPos
        /\ c.reverse_deg = c.reverse_variants[1]}

ReadAlignment ==
    /\ pc = "start"
    /\ seq' \in AlignedSeqs
    /\ cand' \in RowCandidates
    /\ pc' = "loop"
    /\ UNCHANGED <<primer_seq, start_range, end_range, is_reverse, result,
                   f_result, r_result, row>>
    /\ UNCHANGED <<countVars, anaVars, selVars, poolVars>>
    /\ UNCHANGED runVars

\* the for loop takes the next sequence of seq_dict; the locals of the body
\* are assigned anew before they are read
NextSequence ==
    /\ pc \in {"written", "skipped"}
    /\ seen < MaxSeqs
    /\ seq' \in AlignedSeqs
    /\ f_result' = NotFound
    /\ r_result' = NotFound
    /\ row' = NoRow
    /\ pc' = "loop"
    /\ UNCHANGED <<cand, primer_seq, start_range, end_range, is_reverse, result>>
    /\ UNCHANGED <<countVars, anaVars, selVars, poolVars>>
    /\ UNCHANGED runVars

\* seq_dict is exhausted: summary.append((preserved_filename, matches))
EndCandidate ==
    /\ pc \in {"written", "skipped"}
    /\ pc' = "summary"
    /\ UNCHANGED <<seq, cand, primer_seq, start_range, end_range, is_reverse, result,
                   f_result, r_result, row>>
    /\ UNCHANGED <<countVars, anaVars, selVars, poolVars>>
    /\ UNCHANGED runVars

NextRows == ReadAlignment \/ ProcessSequence \/ NextSequence \/ EndCandidate

SpecRows == Init /\ [][NextRows]_vars

(***************************************************************************)
(* The locator on a primer occurrence into which a run of gaps was         *)
(* inserted: the sequence is left flank, the primer with a run of gaps     *)
(* strictly inside it, right flank; the range covers the whole sequence.   *)
(***************************************************************************)
Gaps(n) == [k \in 1..n |-> Gap]

InsertGaps(p, k, n) == SubSeq(p, 1, k) \o Gaps(n) \o SubSeq(p, k + 1, Len(p))

Flanks == StrsUpTo(Bases, MaxFlank)

InitGap ==
    /\ primer_seq \in {p \in StrsUpTo(Bases, GapPrimerLen) : Len(p) >= 2}
    /\ seq \in {left \o InsertGaps(primer_seq, k, n) \o right :
                  left \in Flanks, right \in Flanks,
                  k \in 1..(Len(primer_seq) - 1), n \in 1..MaxRun}
    /\ start_range = 0
    /\ end_range = Len(seq) - 1
    /\ is_reverse \in BOOLEAN
    /\ result = NotFound
    /\ cand = NoCand
    /\ f_result = NotFound
    /\ r_result = NotFound
    /\ row = NoRow
    /\ CountIdle /\ AnaIdle /\ SelIdle /\ PoolIdle /\ RunIdle
    /\ pc = "call"

SpecGap == InitGap /\ [][NextLocate]_vars

(***************************************************************************)
(* Properties of the locator.                                              *)
(***************************************************************************)
GapFree(s) == \A k \in 1..Len(s) : s[k] # Gap

\* p occurs literally in s with its first character at 0-based index k
OccursAt(p, s, k) ==
    /\ k >= 0
    /\ k + Len(p) <= Len(s)
    /\ SubSeq(s, k + 1, k + Len(p)) = p

\* C1: on a gap-free sequence, a forward primer that occurs literally at
\* start_range..end_range (the range is exactly the span of the occurrence) is
\* found, with start and end the first and last index of that occurrence.
C1_ExactRangeLiteralMatch ==
    (/\ pc = "returned"
     /\ ~is_reverse
     /\ GapFree(seq)
     /\ Len(primer_seq) >= 1
     /\ OccursAt(primer_seq, seq, start_range)
     /\ end_range = start_range + Len(primer_seq) - 1)
    => result = Found(start_range, end_range)

C1_Witness ==
    /\ pc = "returned"
    /\ ~is_reverse
    /\ GapFree(seq)
    /\ Len(primer_seq) = 2
    /\ start_range = 1
    /\ end_range = 2
    /\ OccursAt(primer_seq, seq, 1)
    /\ result.found

\* C2: a primer occurrence with a run of gaps inserted strictly inside it is
\* still found when the range covers the whole sequence (in SpecGap every
\* sequence is such an occurrence between two flanks).
C2_GapTransparency == pc = "returned" => result.found

\* the candidate forms of a primer: the pattern, and for a reverse primer its
\* reverse complement
Forms(p, rev) == {p} \cup (IF rev THEN {reverse_complement(p)} ELSE {})

\* form agrees with s from 0-based index i on, a gap of s agreeing with anything
FormMatchesAt(form, s, i) ==
    /\ i + Len(form) <= Len(s)
    /\ \A j \in 1..Len(form) : s[i + j] = Gap \/ s[i + j] = form[j]

SomeFormMatches(p, s, rev) ==
    \E form \in Forms(p, rev) : \E i \in 0..Len(s) : FormMatchesAt(form, s, i)

\* C3: the locator returns found = FALSE exactly when no candidate form matches
\* at any start index of the entire sequence, and then both coordinates are
\* None, not a number.
C3_NotFoundIffNoMatchAnywhere ==
    pc = "returned" =>
        /\ ~result.found <=> ~SomeFormMatches(primer_seq, seq, is_reverse)
        /\ ~result.found => (result.start = None /\ result.end = None)

C3_Witness ==
    /\ pc = "returned"
    /\ is_reverse
    /\ Len(primer_seq) >= 1
    /\ Len(seq) > Len(primer_seq)
    /\ ~GapFree(seq)
    /\ ~result.found
    /\ result.start = None

\* a value of the returned tuple: found with two integer coordinates, or not
\* found with None twice
IsPrimerMatch(r) ==
    /\ r.found \in BOOLEAN
    /\ r.found => (Len(r.start) = 1 /\ Len(r.end) = 1
                   /\ Val(r.start) \in Int /\ Val(r.end) \in Int)
    /\ ~r.found => (r.start = None /\ r.end = None)

\* C4: the locator is total: whatever the pattern (empty, longer than the
\* sequence), the sequence (empty, all gaps) and the range (start > end, past
\* the end, negative), the call returns a tuple and raises nothing.
C4_LocateTotal ==
    pc = "returned" => (~result.raised /\ IsPrimerMatch(result))

C4_Witness ==
    /\ pc = "returned"
    /\ Len(primer_seq) > Len(seq)
    /\ Len(seq) >= 1
    /\ \A k \in 1..Len(seq) : seq[k] = Gap
    /\ start_range > end_range
    /\ start_range > Len(seq)
    /\ ~result.raised

(***************************************************************************)
(* Properties of the extractor.                                            *)
(***************************************************************************)
BothInOrder == f_result.found /\ r_result.found /\ Val(f_result.end) < Val(r_result.start)

\* C5: when both primers are found and the forward primer ends before the
\* reverse primer starts, the row has status OK, AmpliconStart = f_end + 1,
\* AmpliconEnd = r_start, and the gapped amplicon is the alignment characters at
\* positions f_end + 1 .. r_start - 1, none of them a position of a primer.
C5_ConsistentCase ==
    (pc = "written" /\ BothInOrder) =>
        LET f_end == Val(f_result.end)
            r_start == Val(r_result.start)
        IN  /\ row.ErrorStatus = "OK"
            /\ row.AmpliconStart = f_end + 1
            /\ row.AmpliconEnd = r_start
            /\ r_start <= Len(seq)
            /\ row.AmpliconSequence = [k \in 1..(r_start - f_end - 1) |-> seq[f_end + 1 + k]]
            /\ \A k \in (f_end + 1)..(r_start - 1) :
                   /\ k \notin Val(f_result.start)..Val(f_result.end)
                   /\ k \notin Val(r_result.start)..Val(r_result.end)

C5_Witness ==
    /\ pc = "written"
    /\ BothInOrder
    /\ row.ErrorStatus = "OK"
    /\ Len(row.AmpliconSequence) >= 1
    /\ row.AmpliconStart = Val(f_result.end) + 1

\* C6: a row whose forward primer was not found has status
\* FORWARD_PRIMER_NOT_FOUND whether or not the reverse primer was found; the
\* status is REVERSE_PRIMER_NOT_FOUND exactly when the forward primer was found
\* and the reverse primer was not.
C6_StatusPrecedence ==
    pc = "written" =>
        /\ ~f_result.found => row.ErrorStatus = "FORWARD_PRIMER_NOT_FOUND"
        /\ row.ErrorStatus = "REVERSE_PRIMER_NOT_FOUND"
               <=> (f_result.found /\ ~r_result.found)

C6_Witness ==
    /\ pc = "written"
    /\ ~f_result.found
    /\ ~r_result.found
    /\ row.ErrorStatus = "FORWARD_PRIMER_NOT_FOUND"

\* C7: a row whose primers were both found with the forward primer ending at or
\* after the start of the reverse primer (equality included) has status
\* PRIMERS_OVERLAP_OR_WRONG_ORDER.
C7_OverlapCase ==
    (/\ pc = "written"
     /\ f_result.found
     /\ r_result.found
     /\ Val(f_result.end) >= Val(r_result.start))
    => row.ErrorStatus = "PRIMERS_OVERLAP_OR_WRONG_ORDER"

C7_Witness ==
    /\ pc = "written"
    /\ f_result.found
    /\ r_result.found
    /\ Val(f_result.end) = Val(r_result.start)
    /\ row.ErrorStatus = "PRIMERS_OVERLAP_OR_WRONG_ORDER"

\* C8: every row whose status is not OK has AmpliconStart = fend + 1 and
\* AmpliconEnd = rstart, the boundaries of the expected ranges, whatever
\* coordinates the locator returned.
C8_FallbackToRange ==
    (pc = "written" /\ row.ErrorStatus # "OK") =>
        /\ row.AmpliconStart = cand.fend + 1
        /\ row.AmpliconEnd = cand.rstart

C8_Witness ==
    /\ pc = "written"
    /\ row.ErrorStatus = "PRIMERS_OVERLAP_OR_WRONG_ORDER"
    /\ Val(f_result.end) # cand.fend
    /\ Val(r_result.start) # cand.rstart
    /\ row.AmpliconStart = cand.fend + 1
    /\ row.AmpliconEnd = cand.rstart

UsingRangeBoundaries == pc = "written" /\ row.ErrorStatus = "USING_RANGE_BOUNDARIES"

\* the row's coordinates are the boundaries of the expected ranges, taken by
\* the fallback branch
FellBack == pc = "written" /\ ~UseExact(f_result, r_result)

C10_EmptyUnlessStartBeforeEnd ==
    pc = "written" =>
        /\ ~(row.AmpliconStart < row.AmpliconEnd)
               => (row.AmpliconSequence = <<>> /\ row.DashlessSequence = <<>>)
        /\ Len(row.AmpliconSequence) <= Max(0, row.AmpliconEnd - row.AmpliconStart)
        /\ Len(row.DashlessSequence) <= Len(row.AmpliconSequence)

C10_Witness ==
    /\ pc = "written"
    /\ row.AmpliconStart = row.AmpliconEnd
    /\ row.AmpliconStart < Len(seq)
    /\ row.AmpliconSequence = <<>>
    /\ row.DashlessSequence = <<>>

(***************************************************************************)
(* analyze_ampliconV2_Server.py: the diversity analyzer.  A dict is the    *)
(* sequence of its items in insertion order.                               *)
(***************************************************************************)
Headers == {"h1", "h2"}

RECURSIVE Run(_, _)
Run(ch, n) == IF n = 0 THEN <<>> ELSE <<ch>> \o Run(ch, n - 1)

\* the AmpliconSequence values of the CSV: two lengths, so that pairs of
\* unequal length occur
AmpliconValues ==
    {Run("A", MaxAmpLen - t) \o Run("T", t) : t \in 0 .. MaxTs}
        \cup {Run("A", MaxAmpLen - 1 - t) \o Run("T", t) : t \in 0 .. MaxTs - 1}

\* position of key k among the items of d, 0 when absent
KeyIndex(d, k) ==
    IF \E i \in 1..Len(d) : d[i].key = k
    THEN CHOOSE i \in 1..Len(d) : d[i].key = k
    ELSE 0

\* mutant of SetDefaultAppend: the list of the key is replaced
SetDefaultReplace(d, k, v) ==
    IF KeyIndex(d, k) = 0
    THEN Append(d, [key |-> k, val |-> <<v>>])
    ELSE [d EXCEPT ![KeyIndex(d, k)].val = <<v>>]

\* d.setdefault(k, []).append(v)  (line 50)
SetDefaultAppend(d, k, v) ==
    IF KeyIndex(d, k) = 0
    THEN Append(d, [key |-> k, val |-> <<v>>])
    ELSE [d EXCEPT ![KeyIndex(d, k)].val = Append(@, v)]

\* d[k] = v: a key already present keeps its position  (line 51)
SetItem(d, k, v) ==
    IF KeyIndex(d, k) = 0
    THEN Append(d, [key |-> k, val |-> v])
    ELSE [d EXCEPT ![KeyIndex(d, k)].val = v]

\* `raise ValueError` of hamming_distance  (lines 28-29)
HammingRaises(s1, s2) == Len(s1) # Len(s2)

\* mutant of hamming_distance: the last position is not compared
hamming_distance_short(s1, s2) == Cardinality({k \in 1..(Len(s1) - 1) : s1[k] # s2[k]})

\* sum(ch1 != ch2 for ch1, ch2 in zip(s1, s2))  (line 30)
hamming_distance(s1, s2) == Cardinality({k \in 1..Len(s1) : s1[k] # s2[k]})

\* the loop of lines 49-51 over the first n rows: asv_to_headers
RECURSIVE AsvToHeaders(_, _)
AsvToHeaders(rs, n) ==
    IF n = 0 THEN <<>>
    ELSE SetDefaultAppend(AsvToHeaders(rs, n - 1), rs[n][2], rs[n][1])

\* the loop of lines 49-51 over the first n rows: aligned_dict
RECURSIVE AlignedDict(_, _)
AlignedDict(rs, n) ==
    IF n = 0 THEN <<>>
    ELSE SetItem(AlignedDict(rs, n - 1), rs[n][1], rs[n][2])

\* the loops of lines 56-62 from (i, j) on: a pair that raises is skipped
RECURSIVE DistancesFrom(_, _, _)
DistancesFrom(L, i, j) ==
    IF i > Len(L) THEN <<>>
    ELSE IF j > Len(L) THEN DistancesFrom(L, i + 1, i + 2)
    ELSE (IF HammingRaises(L[i], L[j]) THEN <<>>
          ELSE <<hamming_distance(L[i], L[j])>>) \o DistancesFrom(L, i, j + 1)

\* a number as a fraction in lowest terms (halves are all that occur)
Whole(n) == [num |-> n, den |-> 1]
Half(n) == IF n % 2 = 0 THEN Whole(n \div 2) ELSE [num |-> n, den |-> 2]

\* mutant of median: the upper of the two middle values
median_high(d) ==
    LET data == SortSeq(d, LAMBDA a, b : a < b)
    IN  Whole(data[(Len(d) \div 2) + 1])

\* statistics.median of a non-empty list: the middle value, or the mean of
\* the two middle values
median(d) ==
    LET data == SortSeq(d, LAMBDA a, b : a < b)
        n == Len(d)
    IN  IF n % 2 = 1 THEN Whole(data[(n \div 2) + 1])
        ELSE Half(data[n \div 2] + data[(n \div 2) + 1])

\* return 0, 0, 0, {}, {}  (line 40)
EmptyResult ==
    [num_input |-> 0, num_unique_asvs |-> 0, median_hd |-> Whole(0),
     asv_to_headers |-> <<>>, aligned_dict |-> <<>>]

\* mutant of SingleResult: the single record founds no group
SingleResultNoGroup(rs) ==
    [num_input |-> 1, num_unique_asvs |-> 0, median_hd |-> Whole(0),
     asv_to_headers |-> <<>>, aligned_dict |-> <<>>]

\* the single-record return  (lines 42-45)
SingleResult(rs) ==
    [num_input |-> 1, num_unique_asvs |-> 1, median_hd |-> Whole(0),
     asv_to_headers |-> <<[key |-> rs[1][2], val |-> <<rs[1][1]>>]>>,
     aligned_dict |-> <<[key |-> "seq0", val |-> rs[1][2]]>>]

\* analyze_csv on the rows read  (lines 38-64)
analyze_csv(rs) ==
    IF Len(rs) = 0 THEN EmptyResult
    ELSE IF Len(rs) = 1 THEN SingleResult(rs)
    ELSE LET asv_to_headers == AsvToHeaders(rs, Len(rs))
             aligned_list == [i \in 1..Len(asv_to_headers) |-> asv_to_headers[i].key]
             distances == DistancesFrom(aligned_list, 1, 2)
         IN  [num_input |-> Len(rs),
              num_unique_asvs |-> Len(asv_to_headers),
              median_hd |-> IF distances # <<>> THEN median(distances) ELSE Whole(0),
              asv_to_headers |-> asv_to_headers,
              aligned_dict |-> AlignedDict(rs, Len(rs))]

\* len(next(iter(aligned_dict.values()))) if aligned_dict else 0  (lines 80-83)
amplicon_length(aligned_dict) ==
    IF aligned_dict # <<>> THEN Len(aligned_dict[1].val) ELSE 0

\* row_dict of main  (lines 85-96)
row_dict(rs) ==
    LET a == analyze_csv(rs)
    IN  [NumInputSequences |-> a.num_input,
         NumUniqueASVs |-> a.num_unique_asvs,
         MedianHammingDistance |-> a.median_hd,
         AmpliconLength |-> amplicon_length(a.aligned_dict),
         asv_to_headers |-> a.asv_to_headers]

ExtractIdle ==
    /\ seq = <<>>
    /\ cand = NoCand
    /\ primer_seq = <<>>
    /\ start_range = 0
    /\ end_range = 0
    /\ is_reverse = FALSE
    /\ result = NotFound
    /\ f_result = NotFound
    /\ r_result = NotFound
    /\ row = NoRow

extractVars == <<seq, primer_seq, start_range, end_range, is_reverse, result,
                 cand, f_result, r_result, row>>

\* analyze_csv has opened one amplicon CSV
InitAnalyze ==
    /\ ExtractIdle /\ CountIdle /\ AnaIdle /\ SelIdle /\ PoolIdle /\ RunIdle
    /\ pc = "read_csv"

\* rows.append((row["Header"], row["AmpliconSequence"]))  (lines 36-37)
ReadRow ==
    /\ pc = "read_csv"
    /\ Len(rows) < MaxRows
    /\ \E h \in Headers, a \in AmpliconValues : rows' = Append(rows, <<h, a>>)
    /\ UNCHANGED <<summary, pc>>
    /\ UNCHANGED <<extractVars, countVars, selVars, poolVars>>
    /\ UNCHANGED runVars

\* the reader is exhausted: the rest of analyze_csv and main's row_dict
Analyze ==
    /\ pc = "read_csv"
    /\ summary' = row_dict(rows)
    /\ pc' = "analyzed"
    /\ UNCHANGED rows
    /\ UNCHANGED <<extractVars, countVars, selVars, poolVars>>
    /\ UNCHANGED runVars

NextAnalyze == ReadRow \/ Analyze

SpecAnalyze == InitAnalyze /\ [][NextAnalyze]_vars

(***************************************************************************)
(* Data_centralization_server.py: extract_best_row.  A DataFrame is the    *)
(* sequence of its rows; each row carries its index label.                 *)
(***************************************************************************)
\* the literal of `df["AmpliconLength"] < 500`
MaxAmpliconLength == 500

\* NumUniqueASVs, MedianHammingDistance and AmpliconLength of the candidate
\* rows: counts and distances that tie and that differ, lengths below, at and
\* above the limit
Measures ==
    {<<5, 2, 300>>, <<5, 4, 450>>, <<6, 2, 300>>,
     <<6, 1, MaxAmpliconLength>>, <<6, 1, 600>>}

CandidateRows ==
    {[NumUniqueASVs |-> m[1], MedianHammingDistance |-> m[2], AmpliconLength |-> m[3]] :
        m \in Measures}

\* pd.read_csv: the rows in file order under a RangeIndex; PrimerPairCSV
\* names the row  (line 15)
DataFrame(rs) ==
    [i \in 1..Len(rs) |->
        [index |-> i - 1, PrimerPairCSV |-> i,
         NumUniqueASVs |-> rs[i].NumUniqueASVs,
         MedianHammingDistance |-> rs[i].MedianHammingDistance,
         AmpliconLength |-> rs[i].AmpliconLength]]

DataFrames ==
    {DataFrame(rs) : rs \in UNION {[1..n -> CandidateRows] : n \in 0..MaxCands}}

\* mutant of df_filtered: the length limit itself passes
df_filtered_inclusive(d) == SelectSeq(d, LAMBDA r : r.AmpliconLength <= MaxAmpliconLength)

\* df[df["AmpliconLength"] < 500]  (line 16)
df_filtered(d) == SelectSeq(d, LAMBDA r : r.AmpliconLength < MaxAmpliconLength)

\* df_filtered["NumUniqueASVs"].max()  (line 19)
max_asvs(d) ==
    CHOOSE n \in {d[i].NumUniqueASVs : i \in 1..Len(d)} :
        \A i \in 1..Len(d) : d[i].NumUniqueASVs <= n

\* df_filtered[df_filtered["NumUniqueASVs"] == max_asvs]  (line 21)
max_asv_rows(d) == SelectSeq(d, LAMBDA r : r.NumUniqueASVs = max_asvs(d))

\* mutant of idxmax: the label of the last row holding the maximum
idxmax_last(d) ==
    LET k == CHOOSE i \in 1..Len(d) :
                 /\ \A j \in 1..Len(d) : d[j].MedianHammingDistance <= d[i].MedianHammingDistance
                 /\ \A j \in (i + 1)..Len(d) : d[j].MedianHammingDistance < d[i].MedianHammingDistance
    IN  d[k].index

\* Series.idxmax: the label of the first row holding the maximum  (line 25)
idxmax(d) ==
    LET k == CHOOSE i \in 1..Len(d) :
                 /\ \A j \in 1..Len(d) : d[j].MedianHammingDistance <= d[i].MedianHammingDistance
                 /\ \A j \in 1..(i - 1) : d[j].MedianHammingDistance < d[i].MedianHammingDistance
    IN  d[k].index

\* DataFrame.loc[label]: labels of a RangeIndex are unique
loc(d, label) == d[CHOOSE i \in 1..Len(d) : d[i].index = label]

\* mutant of best_row: the first row of the maximal count, whatever its distance
best_row_first(d) == d[1]

\* best_row of the rows of maximal count  (lines 24-27)
best_row(d) == IF Len(d) > 1 THEN loc(d, idxmax(d)) ELSE d[1]

\* output_row: the three layouts of lines 30-66 differ in the sequence-count
\* columns only
output_row(file, best) ==
    [Filename |-> file,
     PrimerPairCSV |-> best.PrimerPairCSV,
     NumUniqueASVs |-> best.NumUniqueASVs,
     MedianHammingDistance |-> best.MedianHammingDistance,
     AmpliconLength |-> best.AmpliconLength]

\* mutant of rows_after: with no survivor the pick is made among all rows
rows_after_unfiltered(out, file, d) ==
    LET survivors == IF df_filtered(d) # <<>> THEN df_filtered(d) ELSE d
    IN  IF survivors # <<>>
        THEN Append(out, output_row(file, best_row(max_asv_rows(survivors))))
        ELSE out

\* output_rows after the try block of one file  (lines 16-67)
rows_after(out, file, d) ==
    IF df_filtered(d) # <<>>
    THEN Append(out, output_row(file, best_row(max_asv_rows(df_filtered(d)))))
    ELSE out

\* extract_best_row is entered: output_rows = []
InitSelect ==
    /\ ExtractIdle /\ CountIdle /\ AnaIdle /\ SelIdle /\ PoolIdle /\ RunIdle
    /\ pc = "walk"

\* os.walk yields the next processed_amplicon.csv and pd.read_csv reads it
ReadCsv ==
    /\ pc \in {"walk", "selected"}
    /\ files < MaxFiles
    /\ df' \in DataFrames
    /\ files' = files + 1
    /\ pc' = "loaded"
    /\ UNCHANGED output_rows
    /\ UNCHANGED <<extractVars, countVars, anaVars, poolVars>>
    /\ UNCHANGED runVars

\* pd.read_csv or a column access raises: the except clause prints and the
\* loop goes on  (lines 68-69)
ReadCsvFails ==
    /\ pc \in {"walk", "selected"}
    /\ files < MaxFiles
    /\ df' = <<>>
    /\ files' = files + 1
    /\ pc' = "walk"
    /\ UNCHANGED output_rows
    /\ UNCHANGED <<extractVars, countVars, anaVars, poolVars>>
    /\ UNCHANGED runVars

\* the rest of the try block  (lines 16-67)
SelectBest ==
    /\ pc = "loaded"
    /\ output_rows' = rows_after(output_rows, files, df)
    /\ pc' = "selected"
    /\ UNCHANGED <<df, files>>
    /\ UNCHANGED <<extractVars, countVars, anaVars, poolVars>>
    /\ UNCHANGED runVars

\* os.walk is exhausted  (lines 71-76)
WriteOutput ==
    /\ pc \in {"walk", "selected"}
    /\ pc' = IF output_rows # <<>> THEN "output_written" ELSE "no_valid_rows"
    /\ UNCHANGED <<df, files, output_rows>>
    /\ UNCHANGED <<extractVars, countVars, anaVars, poolVars>>
    /\ UNCHANGED runVars

NextSelect == ReadCsv \/ ReadCsvFails \/ SelectBest \/ WriteOutput

SpecSelect == InitSelect /\ [][NextSelect]_vars

(***************************************************************************)
(* amplicon_analysis.py: Step 1 of analyze_amplicons, one pool task per    *)
(* gene directory.  A task ends by returning True, returning False, or by  *)
(* raising (log_message inside the except clause of line 93 can raise).    *)
(***************************************************************************)
Outcomes == {"True", "False", "raised"}

Pending == [state |-> "pending", result |-> "none"]

\* the tasks in the given state
InState(st) == {i \in 1..Len(task) : task[i].state = st}

\* mutant of after_result: an exception of future.result() is not caught
after_result_uncaught(outcome) ==
    IF outcome = "raised" THEN "aborted" ELSE "step1"

\* where the collection loop stands after the try statement of lines 173-180:
\* the except clause lets it go on
after_result(outcome) == "step1"

\* the pool is entered  (lines 162-165)
InitPool ==
    /\ ExtractIdle /\ CountIdle /\ AnaIdle /\ SelIdle /\ PoolIdle /\ RunIdle
    /\ pc = "step1_start"

\* executor.submit for every gene directory  (lines 166-169)
Submit ==
    /\ pc = "step1_start"
    /\ \E n \in 1..MaxGenes : task' = [i \in 1..n |-> Pending]
    /\ pc' = "step1"
    /\ UNCHANGED <<successful_amplification, failed_amplification>>
    /\ UNCHANGED <<extractVars, countVars, anaVars, selVars>>
    /\ UNCHANGED runVars

\* a free worker thread takes a queued task
StartTask ==
    /\ \E i \in InState("pending") :
           /\ Cardinality(InState("running")) < MaxWorkers
           /\ task' = [task EXCEPT ![i].state = "running"]
    /\ UNCHANGED <<successful_amplification, failed_amplification, pc>>
    /\ UNCHANGED <<extractVars, countVars, anaVars, selVars>>
    /\ UNCHANGED runVars

\* run_amplification_analysis ends in its worker thread  (lines 22-94)
FinishTask ==
    /\ \E i \in InState("running"), o \in Outcomes :
           task' = [task EXCEPT ![i] = [state |-> "done", result |-> o]]
    /\ UNCHANGED <<successful_amplification, failed_amplification, pc>>
    /\ UNCHANGED <<extractVars, countVars, anaVars, selVars>>
    /\ UNCHANGED runVars

\* as_completed yields a finished future; the body of the loop  (lines 171-180)
Collect ==
    /\ pc = "step1"
    /\ \E i \in InState("done") :
           /\ task' = [task EXCEPT ![i].state = "collected"]
           /\ successful_amplification' =
                  successful_amplification + (IF task[i].result = "True" THEN 1 ELSE 0)
           /\ failed_amplification' =
                  failed_amplification + (IF task[i].result = "True" THEN 0 ELSE 1)
           /\ pc' = after_result(task[i].result)
    /\ UNCHANGED <<extractVars, countVars, anaVars, selVars>>
    /\ UNCHANGED runVars

\* as_completed is exhausted and the pool is shut down  (lines 181-182)
EndStep1 ==
    /\ pc = "step1"
    /\ InState("collected") = 1..Len(task)
    /\ pc' = "step1_done"
    /\ UNCHANGED <<task, successful_amplification, failed_amplification>>
    /\ UNCHANGED <<extractVars, countVars, anaVars, selVars>>
    /\ UNCHANGED runVars

NextPool == Submit \/ StartTask \/ FinishTask \/ Collect \/ EndStep1

SpecPool == InitPool /\ [][NextPool]_vars

\* the pool runs every queued task, every task ends, and the main thread is
\* woken for every finished future
SpecPoolFair == SpecPool /\ WF_vars(NextPool)

(***************************************************************************)
(* Properties of the diversity analyzer.                                   *)
(***************************************************************************)
\* the distinct AmpliconSequence values of the rows read
Variants == {rows[i][2] : i \in 1..Len(rows)}

\* the headers of the records carrying sequence a, in input order
HeadersWith(a) ==
    LET sel == SelectSeq(rows, LAMBDA r : r[2] = a)
    IN  [i \in 1..Len(sel) |-> sel[i][1]]

RECURSIVE GroupSizes(_, _)
GroupSizes(g, n) == IF n = 0 THEN 0 ELSE Len(g[n].val) + GroupSizes(g, n - 1)

\* C12: the number of unique variants is the number of distinct sequences of
\* the records; the groups are keyed by these sequences, one group each; a
\* group lists, in input order, the headers of exactly the records carrying
\* its sequence; the group sizes sum to the number of records.
C12_Grouping ==
    pc = "analyzed" =>
        LET g == summary.asv_to_headers
        IN  /\ summary.NumUniqueASVs = Cardinality(Variants)
            /\ Len(g) = Cardinality(Variants)
            /\ {g[k].key : k \in 1..Len(g)} = Variants
            /\ \A k \in 1..Len(g) : g[k].val = HeadersWith(g[k].key)
            /\ GroupSizes(g, Len(g)) = Len(rows)
            /\ summary.NumInputSequences = Len(rows)

C12_Witness ==
    /\ pc = "analyzed"
    /\ Len(rows) = 4
    /\ Len(summary.asv_to_headers) = 2
    /\ summary.asv_to_headers[1].val = <<"h2", "h1", "h2">>

\* the unordered pairs of distinct variants of equal length
EqualLengthPairs ==
    {p \in SUBSET Variants :
        /\ Cardinality(p) = 2
        /\ \A a \in p, b \in p : Len(a) = Len(b)}

PairDistance(p) ==
    LET a == CHOOSE x \in p : TRUE
        b == CHOOSE x \in p : x # a
    IN  Cardinality({k \in 1..Len(a) : a[k] # b[k]})

\* the k-th smallest distance of the multiset of pair distances
KthSmallest(k) ==
    CHOOSE x \in 0..MaxAmpLen :
        /\ Cardinality({p \in EqualLengthPairs : PairDistance(p) < x}) < k
        /\ k <= Cardinality({p \in EqualLengthPairs : PairDistance(p) <= x})

\* twice the median of the multiset of pair distances
TwiceMedianOfPairs ==
    LET n == Cardinality(EqualLengthPairs)
    IN  IF n % 2 = 1 THEN 2 * KthSmallest((n + 1) \div 2)
        ELSE KthSmallest(n \div 2) + KthSmallest((n \div 2) + 1)

ScenarioVariants ==
    {<<"A", "A", "A", "A">>, <<"A", "A", "A", "T">>, <<"A", "A", "T", "T">>}

\* C13: MedianHammingDistance is the median of the distances over the
\* unordered pairs of distinct variants of equal length, 0 when there is no
\* such pair; for the variants AAAA, AAAT, AATT it is 1.
C13_MedianOfPairDistances ==
    pc = "analyzed" =>
        LET m == summary.MedianHammingDistance
        IN  /\ m.den \in {1, 2}
            /\ EqualLengthPairs = {} => m = Whole(0)
            /\ EqualLengthPairs # {} => 2 * m.num = TwiceMedianOfPairs * m.den
            /\ Variants = ScenarioVariants => m = Whole(1)

C13_Witness ==
    /\ pc = "analyzed"
    /\ Variants = ScenarioVariants

\* C14: no record gives the all-zero summary; a single record gives one
\* input, one unique variant and distance 0.
C14_DegenerateCases ==
    pc = "analyzed" =>
        /\ Len(rows) = 0 =>
              /\ summary.NumInputSequences = 0
              /\ summary.NumUniqueASVs = 0
              /\ summary.MedianHammingDistance = Whole(0)
              /\ summary.AmpliconLength = 0
              /\ summary.asv_to_headers = <<>>
        /\ Len(rows) = 1 =>
              /\ summary.NumInputSequences = 1
              /\ summary.NumUniqueASVs = 1
              /\ summary.MedianHammingDistance = Whole(0)
              /\ summary.asv_to_headers = <<[key |-> rows[1][2], val |-> <<rows[1][1]>>]>>

C14_Witness ==
    /\ pc = "analyzed"
    /\ Len(rows) = 1
    /\ summary.NumUniqueASVs = 1

\* C15: the amplicon length is the length of the first-encountered variant
\* for every non-empty list of records, repeated headers included, and 0 when
\* there is no variant.
C15_LengthOfFirstVariant ==
    pc = "analyzed" =>
        summary.AmpliconLength =
            IF rows = <<>> THEN 0 ELSE Len(rows[1][2])

(***************************************************************************)
(* Properties of the best-pick selector.                                   *)
(***************************************************************************)
\* the rows of the file just read that pass the length filter
Eligible == {i \in 1..Len(df) : df[i].AmpliconLength < MaxAmpliconLength}

\* the file just read has a row in the output
Picked == output_rows # <<>> /\ output_rows[Len(output_rows)].Filename = files

\* the position in df of the row picked for the file just read
PickedRow == output_rows[Len(output_rows)].PrimerPairCSV

\* C16: a row is picked for a file iff some row of it is shorter than the
\* limit, and the picked row is one of these; a row whose length equals the
\* limit is never picked, whatever its unique-variant count.
C16_StrictLengthFilter ==
    /\ \A k \in 1..Len(output_rows) : output_rows[k].AmpliconLength < MaxAmpliconLength
    /\ pc = "selected" =>
          /\ Picked <=> Eligible # {}
          /\ Picked => PickedRow \in Eligible

\* a row of exactly the limit with the larger count loses to a shorter row
C16_Witness ==
    /\ pc = "selected"
    /\ Picked
    /\ \E i \in 1..Len(df) :
           /\ df[i].AmpliconLength = MaxAmpliconLength
           /\ df[i].NumUniqueASVs > df[PickedRow].NumUniqueASVs

ScenarioA == [NumUniqueASVs |-> 5, MedianHammingDistance |-> 2, AmpliconLength |-> 300]
ScenarioB == [NumUniqueASVs |-> 5, MedianHammingDistance |-> 4, AmpliconLength |-> 450]
ScenarioC == [NumUniqueASVs |-> 6, MedianHammingDistance |-> 1, AmpliconLength |-> 600]
IsScenario == df = DataFrame(<<ScenarioA, ScenarioB, ScenarioC>>)

\* C17: the picked row is eligible, no eligible row has a larger
\* unique-variant count, and no eligible row of the same count has a larger
\* median distance; of A(5,2,300), B(5,4,450), C(6,1,600) it is B.
C17_BestEligible ==
    (pc = "selected" /\ Picked) =>
        /\ PickedRow \in Eligible
        /\ output_rows[Len(output_rows)] = output_row(files, df[PickedRow])
        /\ \A j \in Eligible :
               /\ df[j].NumUniqueASVs <= df[PickedRow].NumUniqueASVs
               /\ df[j].NumUniqueASVs = df[PickedRow].NumUniqueASVs =>
                      df[j].MedianHammingDistance <= df[PickedRow].MedianHammingDistance
        /\ IsScenario => PickedRow = 2

C17_Witness == pc = "selected" /\ Picked /\ IsScenario

\* the eligible rows tying with row i on both criteria
TiedWith(i) ==
    {j \in Eligible :
        /\ df[j].NumUniqueASVs = df[i].NumUniqueASVs
        /\ df[j].MedianHammingDistance = df[i].MedianHammingDistance}

\* C18: of the eligible rows tying with the picked row on unique-variant
\* count and on median distance, the picked row is the first in file order.
C18_FirstOfTies ==
    (pc = "selected" /\ Picked) =>
        \A j \in TiedWith(PickedRow) : PickedRow <= j

C18_Witness ==
    /\ pc = "selected"
    /\ Picked
    /\ PickedRow = 2
    /\ TiedWith(PickedRow) = {2, 3}

\* C19: a file all of whose rows are at least the limit long adds no row,
\* the rows picked for other files are kept, one per file at most and in
\* file order, and the walk goes on to the next file.
C19_NoSurvivorNoRow ==
    /\ \A k \in 1..Len(output_rows) :
           /\ output_rows[k].Filename \in 1..files
           /\ \A l \in 1..(k - 1) : output_rows[l].Filename < output_rows[k].Filename
    /\ (pc = "selected" /\ Eligible = {}) =>
           /\ ~Picked
           /\ files < MaxFiles => ENABLED ReadCsv

C19_Witness ==
    /\ pc = "selected"
    /\ files = 2
    /\ df # <<>>
    /\ Eligible = {}
    /\ Len(output_rows) = 1
    /\ output_rows[1].Filename = 1

(***************************************************************************)
(* Properties of the worker pool.                                          *)
(***************************************************************************)
Collected(o) == {i \in InState("collected") : task[i].result = o}

C11_OneRowPerSequence == pc = "summary" => matches = seen

\* some non-empty variant occurs in the gap-stripped slice around the forward
\* range, and the reverse complement of some non-empty variant in the one
\* around the reverse range
PassesVariantFilter(c, s) ==
    /\ \E k \in 1..Len(c.forward_variants) :
           /\ c.forward_variants[k] # <<>>
           /\ IsSubstring(c.forward_variants[k],
                          StripGaps(PySlice(s, Max(0, c.fstart - 1), c.fend + 2)))
    /\ \E k \in 1..Len(c.reverse_variants) :
           /\ c.reverse_variants[k] # <<>>
           /\ IsSubstring(reverse_complement(c.reverse_variants[k]),
                          StripGaps(PySlice(s, Max(0, c.rstart - 1), c.rend + 2)))

\* C11, amended: every sequence iterated gives at most one row; it gives one
\* exactly when it passes the variant filter, whether or not the locator then
\* finds the degenerate primers; a sequence failing the filter is dropped, so
\* the rows never outnumber the sequences.
C11_RowIffVariantFilter ==
    /\ [](matches <= seen)
    /\ [][pc = "loop" =>
            /\ seen' = seen + 1
            /\ matches' = matches + (IF PassesVariantFilter(cand, seq) THEN 1 ELSE 0)
            /\ (pc' = "written") <=> PassesVariantFilter(cand, seq)
            /\ (pc' = "skipped") <=> ~PassesVariantFilter(cand, seq)]_vars

C11_Witness ==
    /\ pc = "summary"
    /\ seen = 2
    /\ matches = 1
    /\ row.ErrorStatus = "FORWARD_PRIMER_NOT_FOUND"

(***************************************************************************)
(* amplicon_analysis.py: log_message, called by the pool's worker threads  *)
(* and by the main thread without a lock.  Each call opens the log file    *)
(* for append, writes one line into the file object's buffer, and leaves   *)
(* the with block, which flushes the buffer in one write of a descriptor   *)
(* opened with O_APPEND.                                                   *)
(***************************************************************************)
\* f"[{timestamp}] {message}\n" of the k-th message of thread w  (line 19)
LogLine(w, k) == <<"[timestamp]", <<w, k>>, "\n">>
LineLen == Len(LogLine(1, 1))

NotLogging == [at |-> "idle", buffer |-> <<>>, opened_at |-> 0, sent |-> 0]

\* data written into a file at an offset
WriteAt(file, off, data) ==
    SubSeq(file, 1, off) \o data \o SubSeq(file, off + Len(data) + 1, Len(file))

\* mutant of write_offset: the write goes where the file ended when it was opened
write_offset_at_open(file, opened_at) == opened_at

\* where a write to a file opened in mode "a" goes: the end of the file at
\* the moment of the write  (line 18)
write_offset(file, opened_at) == Len(file)

\* the threads of the run are at the start of their work
InitLog ==
    /\ ExtractIdle /\ CountIdle /\ AnaIdle /\ SelIdle /\ PoolIdle
    /\ logfile = <<>>
    /\ writer = [w \in 1..MaxWriters |-> NotLogging]
    /\ MapIdle
    /\ gene = NoGene
    /\ pc = "logging"

\* open(log_file, "a")  (line 18)
LogOpen ==
    /\ \E w \in 1..MaxWriters :
           /\ writer[w].at = "idle"
           /\ writer[w].sent < MaxMsgs
           /\ writer' = [writer EXCEPT ![w].at = "opened",
                                       ![w].opened_at = Len(logfile)]
    /\ UNCHANGED <<logfile, pc>>
    /\ UNCHANGED <<extractVars, countVars, anaVars, selVars, poolVars>>
    /\ UNCHANGED <<mapVars, gene>>

\* log.write(...): the line goes into the buffer of the file object  (line 19)
LogWrite ==
    /\ \E w \in 1..MaxWriters :
           /\ writer[w].at = "opened"
           /\ writer' = [writer EXCEPT ![w].at = "written",
                                       ![w].buffer = LogLine(w, writer[w].sent + 1)]
    /\ UNCHANGED <<logfile, pc>>
    /\ UNCHANGED <<extractVars, countVars, anaVars, selVars, poolVars>>
    /\ UNCHANGED <<mapVars, gene>>

\* the with block is left: the buffer is flushed and the file closed
LogClose ==
    /\ \E w \in 1..MaxWriters :
           /\ writer[w].at = "written"
           /\ logfile' = WriteAt(logfile,
                                 write_offset(logfile, writer[w].opened_at),
                                 writer[w].buffer)
           /\ writer' = [writer EXCEPT ![w].at = "idle",
                                       ![w].buffer = <<>>,
                                       ![w].sent = @ + 1]
    /\ UNCHANGED pc
    /\ UNCHANGED <<extractVars, countVars, anaVars, selVars, poolVars>>
    /\ UNCHANGED <<mapVars, gene>>

NextLog == LogOpen \/ LogWrite \/ LogClose

SpecLog == InitLog /\ [][NextLog]_vars

(***************************************************************************)
(* Properties of the log.                                                  *)
(***************************************************************************)
\* the k-th line of the log file
FileLine(k) == SubSeq(logfile, (k - 1) * LineLen + 1, k * LineLen)
NumFileLines == Len(logfile) \div LineLen

\* the messages whose log_message call has written
Logged == {<<w, k>> \in (1..MaxWriters) \X (1..MaxMsgs) : k <= writer[w].sent}

UnitOutcomes == {"success", "skip", "fail"}

PendingUnit == [state |-> "pending", result |-> "none", unit |-> "none"]

\* what run_amplification_analysis hands back: True at line 90, False for a
\* skip (lines 40-42, 71-73) and for a failure (lines 92-94), the exception
\* of log_message when the except clause itself fails
amplification_results(u) ==
    IF u = "success" THEN {"True"}
    ELSE IF u = "skip" THEN {"False"}
    ELSE {"False", "raised"}

\* what run_sequence_mapping hands back: process_subfolder returns None both
\* after its work and after a skip (lines 8-10, 18-20 of
\* synonomousSequenceMAPPINGV5.py), and True follows  (lines 101-107)
mapping_results(u) ==
    IF u = "success" THEN {"True"}
    ELSE IF u = "skip" THEN {"True"}
    ELSE {"False", "raised"}

\* mutant of loop_exhausted: the collection loop is left after its first future
loop_exhausted_early(futures) ==
    \E i \in 1..Len(futures) : futures[i].state = "collected"

\* `for future in as_completed(futures)` has yielded every future, and the
\* with block has shut the pool down  (lines 171, 195)
loop_exhausted(futures) ==
    \A i \in 1..Len(futures) : futures[i].state = "collected"

InitRun ==
    /\ ExtractIdle /\ CountIdle /\ AnaIdle /\ SelIdle /\ PoolIdle /\ RunIdle
    /\ pc = "step1_start"

\* Step 1: executor.submit for every gene directory  (lines 165-169)
SubmitAmplification ==
    /\ pc = "step1_start"
    /\ \E n \in 1..MaxUnits : task' = [i \in 1..n |-> PendingUnit]
    /\ pc' = "step1"
    /\ UNCHANGED <<successful_amplification, failed_amplification>>
    /\ UNCHANGED <<extractVars, countVars, anaVars, selVars, runVars>>

\* run_amplification_analysis ends in its worker thread  (lines 22-94)
FinishAmplification ==
    /\ \E i \in InState("running"), u \in UnitOutcomes :
           \E r \in amplification_results(u) :
               task' = [task EXCEPT ![i] = [state |-> "done", result |-> r, unit |-> u]]
    /\ UNCHANGED <<successful_amplification, failed_amplification, pc>>
    /\ UNCHANGED <<extractVars, countVars, anaVars, selVars, runVars>>

\* the first pool is left  (lines 181-185)
EndAmplification ==
    /\ pc = "step1"
    /\ loop_exhausted(task)
    /\ pc' = "step2_start"
    /\ UNCHANGED <<extractVars, countVars, anaVars, selVars, poolVars, runVars>>

\* Step 2: executor.submit for every gene directory  (lines 189-193)
SubmitMapping ==
    /\ pc = "step2_start"
    /\ mtask' = [i \in 1..Len(task) |-> PendingUnit]
    /\ pc' = "step2"
    /\ UNCHANGED <<successful_mapping, failed_mapping, logVars>>
    /\ UNCHANGED <<extractVars, countVars, anaVars, selVars, poolVars>>
    /\ UNCHANGED gene

\* a free worker thread of the second pool takes a queued task
StartMapping ==
    /\ \E i \in 1..Len(mtask) :
           /\ mtask[i].state = "pending"
           /\ Cardinality({j \in 1..Len(mtask) : mtask[j].state = "running"}) < MaxWorkers
           /\ mtask' = [mtask EXCEPT ![i].state = "running"]
    /\ UNCHANGED <<successful_mapping, failed_mapping, logVars, pc>>
    /\ UNCHANGED <<extractVars, countVars, anaVars, selVars, poolVars>>
    /\ UNCHANGED gene

\* run_sequence_mapping ends in its worker thread  (lines 96-107)
FinishMapping ==
    /\ \E i \in 1..Len(mtask), u \in UnitOutcomes :
           /\ mtask[i].state = "running"
           /\ \E r \in mapping_results(u) :
                  mtask' = [mtask EXCEPT ![i] = [state |-> "done", result |-> r, unit |-> u]]
    /\ UNCHANGED <<successful_mapping, failed_mapping, logVars, pc>>
    /\ UNCHANGED <<extractVars, countVars, anaVars, selVars, poolVars>>
    /\ UNCHANGED gene

\* as_completed yields a finished future; the body of the loop  (lines 195-204)
CollectMapping ==
    /\ pc = "step2"
    /\ \E i \in 1..Len(mtask) :
           /\ mtask[i].state = "done"
           /\ mtask' = [mtask EXCEPT ![i].state = "collected"]
           /\ successful_mapping' =
                  successful_mapping + (IF mtask[i].result = "True" THEN 1 ELSE 0)
           /\ failed_mapping' =
                  failed_mapping + (IF mtask[i].result = "True" THEN 0 ELSE 1)
    /\ UNCHANGED <<logVars, pc>>
    /\ UNCHANGED <<extractVars, countVars, anaVars, selVars, poolVars>>
    /\ UNCHANGED gene

\* the second pool is left  (lines 205-209)
EndMapping ==
    /\ pc = "step2"
    /\ loop_exhausted(mtask)
    /\ pc' = "step3"
    /\ UNCHANGED <<extractVars, countVars, anaVars, selVars, poolVars, runVars>>

\* Step 3: run_data_centralization returns True or False  (lines 210-213)
Centralize ==
    /\ pc = "step3"
    /\ pc' \in {"centralized", "centralization_failed"}
    /\ UNCHANGED <<extractVars, countVars, anaVars, selVars, poolVars, runVars>>

\* the copy of the results, caught if it fails, and the summary  (lines 215-233)
FinalSummary ==
    /\ pc \in {"centralized", "centralization_failed"}
    /\ pc' = "final_summary"
    /\ UNCHANGED <<extractVars, countVars, anaVars, selVars, poolVars, runVars>>

NextRun ==
    \/ SubmitAmplification \/ StartTask \/ FinishAmplification \/ Collect
    \/ EndAmplification
    \/ SubmitMapping \/ StartMapping \/ FinishMapping \/ CollectMapping
    \/ EndMapping
    \/ Centralize \/ FinalSummary

SpecRun == InitRun /\ [][NextRun]_vars

\* the pools run every queued task, every task ends, and the main thread
\* goes on whenever it can
SpecRunFair == SpecRun /\ WF_vars(NextRun)

(***************************************************************************)
(* Properties of the whole run.                                            *)
(***************************************************************************)
UnitsOf(futures, u) == {i \in 1..Len(futures) : futures[i].unit = u}

\* C22, as claimed: in the counts of the final summary a skipped unit is
\* neither successful nor failed: successful counts the units that succeeded
\* and failed the units that failed, in both steps.
C22_SkippedCountedApart ==
    pc = "final_summary" =>
        /\ successful_amplification = Cardinality(UnitsOf(task, "success"))
        /\ failed_amplification = Cardinality(UnitsOf(task, "fail"))
        /\ successful_mapping = Cardinality(UnitsOf(mtask, "success"))
        /\ failed_mapping = Cardinality(UnitsOf(mtask, "fail"))

(***************************************************************************)
(* amplicon_analysis.py: run_amplification_analysis for one gene           *)
(* directory, with the candidate loop of the amplification main.           *)
(***************************************************************************)
\* a JSON file of the directory by what its companion CSV gives: no CSV, a
\* CSV whose read raises, a CSV without length column, or the count of its
\* amplicons of length <= 500
Missing == [kind |-> "missing", count |-> 0]
Unreadable == [kind |-> "unreadable", count |-> 0]
NoLengthCol == [kind |-> "no_length_col", count |-> 0]
Counted(n) == [kind |-> "counted", count |-> n]
JsonFiles == {Missing, Unreadable, NoLengthCol} \cup {Counted(n) : n \in 0..MaxCount}

\* os.listdir: the JSON files in listing order
Listings == UNION {[1..n -> JsonFiles] : n \in 0..MaxJsons}

\* the items of a candidate description: well-formed or malformed (key that
\* does not parse, tuple with a field missing)
DataLists == UNION {[1..n -> {"ok", "malformed"}] : n \in 0..MaxData}

\* candidate_jsons: the JSON files with a companion CSV  (lines 32-38)
candidate_jsons(l) == {k \in 1..Len(l) : l[k].kind # "missing"}

\* mutant of BestFrom: a later file of the same count replaces the earlier
RECURSIVE BestFromLast(_, _, _, _)
BestFromLast(l, k, max, best) ==
    IF k > Len(l) THEN [best_json |-> best, max_amplicons |-> max]
    ELSE IF l[k].kind = "counted" /\ l[k].count >= max
         THEN BestFromLast(l, k + 1, l[k].count, k)
         ELSE BestFromLast(l, k + 1, max, best)

\* the loop of lines 48-66 from file k on: a file without companion is not
\* in candidate_jsons, a read that raises is logged, a CSV without length
\* column is passed over, `count > max_amplicons` replaces the best so far
RECURSIVE BestFrom(_, _, _, _)
BestFrom(l, k, max, best) ==
    IF k > Len(l) THEN [best_json |-> best, max_amplicons |-> max]
    ELSE IF l[k].kind = "counted" /\ l[k].count > max
         THEN BestFrom(l, k + 1, l[k].count, k)
         ELSE BestFrom(l, k + 1, max, best)

InitGene ==
    /\ ExtractIdle /\ CountIdle /\ AnaIdle /\ SelIdle /\ PoolIdle /\ RunIdle
    /\ pc = "gene_start"

\* os.listdir(input_dir)  (line 29)
ListDir ==
    /\ pc = "gene_start"
    /\ \E l \in Listings, f \in BOOLEAN :
           gene' = [gene EXCEPT !.all_files = l, !.fasta_file = f]
    /\ pc' = "choose"
    /\ UNCHANGED <<logVars, mapVars>>
    /\ UNCHANGED <<extractVars, countVars, anaVars, selVars, poolVars>>

\* the choice of the candidate description, up to the call of the
\* amplification main, whose json.load gives the candidates  (lines 32-83)
ChooseJson ==
    /\ pc = "choose"
    /\ LET b == BestFrom(gene.all_files, 1, -1, 0)
       IN  IF candidate_jsons(gene.all_files) = {}
           THEN /\ gene' = [gene EXCEPT !.returned = "False"]
                /\ pc' = "returned"
           ELSE IF b.best_json = 0 \/ ~gene.fasta_file
           THEN /\ gene' = [gene EXCEPT !.best_json = b.best_json,
                                        !.max_amplicons = b.max_amplicons,
                                        !.returned = "False"]
                /\ pc' = "returned"
           ELSE /\ \E d \in DataLists :
                       gene' = [gene EXCEPT !.best_json = b.best_json,
                                            !.max_amplicons = b.max_amplicons,
                                            !.amplify_called = TRUE,
                                            !.data = d]
                /\ pc' = "amplify"
    /\ UNCHANGED <<logVars, mapVars>>
    /\ UNCHANGED <<extractVars, countVars, anaVars, selVars, poolVars>>

\* one pass of `for i, (amplicon_key, amplicon_val) in enumerate(data.items())`:
\* a malformed item raises out of main and is caught at line 92 of
\* amplicon_analysis.py, a well-formed one gets its amplicon_i.csv written
AmplifyCandidate ==
    /\ pc = "amplify"
    /\ gene.i < Len(gene.data)
    /\ IF gene.data[gene.i + 1] = "malformed"
       THEN /\ gene' = [gene EXCEPT !.i = @ + 1, !.returned = "False"]
            /\ pc' = "returned"
       ELSE /\ gene' = [gene EXCEPT !.i = @ + 1, !.written = @ \cup {gene.i + 1}]
            /\ pc' = "amplify"
    /\ UNCHANGED <<logVars, mapVars>>
    /\ UNCHANGED <<extractVars, countVars, anaVars, selVars, poolVars>>

\* main has returned: analyze_main summarises the CSV files of the output
\* folder, and True is returned  (lines 85-90)
AnalyzeGene ==
    /\ pc = "amplify"
    /\ gene.i = Len(gene.data)
    /\ gene' = [gene EXCEPT !.analysed = gene.written, !.returned = "True"]
    /\ pc' = "returned"
    /\ UNCHANGED <<logVars, mapVars>>
    /\ UNCHANGED <<extractVars, countVars, anaVars, selVars, poolVars>>

NextGene == ListDir \/ ChooseJson \/ AmplifyCandidate \/ AnalyzeGene

SpecGene == InitGene /\ [][NextGene]_vars

(***************************************************************************)
(* Properties of one gene directory.                                       *)
(***************************************************************************)
\* C23, as claimed: when the gene's task has returned after amplification
\* was started, every well-formed candidate of the description, before or
\* after a malformed one, has been amplified and analysed.
C23_MalformedCandidateAlone ==
    (pc = "returned" /\ gene.amplify_called) =>
        \A c \in 1..Len(gene.data) :
            gene.data[c] = "ok" => (c \in gene.written /\ c \in gene.analysed)

\* the JSON files whose companion CSV was read and has a length column
Qualifying == {k \in 1..Len(gene.all_files) : gene.all_files[k].kind = "counted"}

\* C30: once the choice is made, amplification is started iff some JSON file
\* qualifies and an aligned FASTA exists; the file amplified is a qualifying
\* one of the largest count, a count of 0 included, and the first such in
\* listing order; otherwise the gene's task returns False with no candidate
\* amplified.
C30_ChoiceOfDescription ==
    pc \in {"amplify", "returned"} =>
        /\ gene.amplify_called <=> (Qualifying # {} /\ gene.fasta_file)
        /\ gene.amplify_called =>
              /\ gene.best_json \in Qualifying
              /\ gene.max_amplicons = gene.all_files[gene.best_json].count
              /\ \A k \in Qualifying :
                     /\ gene.all_files[k].count <= gene.max_amplicons
                     /\ gene.all_files[k].count = gene.max_amplicons =>
                            gene.best_json <= k
        /\ ~gene.amplify_called =>
              /\ pc = "returned"
              /\ gene.returned = "False"
              /\ gene.written = {}

\* two files tie on a count of 0: the first of the two is amplified
C30_Witness ==
    /\ pc = "amplify"
    /\ gene.all_files = <<Counted(0), Counted(0)>>
    /\ gene.best_json = 1

(***************************************************************************)
(* Properties of the order of the steps.                                   *)
(***************************************************************************)
Finished(futures) ==
    \A i \in 1..Len(futures) : futures[i].state \in {"done", "collected"}

Started(futures) ==
    \E i \in 1..Len(futures) : futures[i].state # "pending"

C29_ZeroIffNoPair ==
    pc = "analyzed" =>
        LET m == summary.MedianHammingDistance
        IN  /\ (m.num = 0) <=> (EqualLengthPairs = {})
            /\ EqualLengthPairs # {} => m.num >= m.den

\* three variants, two of one length: one pair is compared, two are skipped
C29_Witness ==
    /\ pc = "analyzed"
    /\ Cardinality(Variants) = 3
    /\ Cardinality(EqualLengthPairs) = 1
    /\ summary.MedianHammingDistance.num >= 1

(***************************************************************************)
(* Further properties of the locator.                                      *)
(***************************************************************************)
\* C24: a gap never stands in for a pattern character: the locator returns
\* found = TRUE only if the gap-stripped sequence contains a candidate form
\* as a contiguous substring.
C24_GapNeverMatchesPattern ==
    (pc = "returned" /\ result.found) =>
        \E form \in Forms(primer_seq, is_reverse) : IsSubstring(form, StripGaps(seq))

\* C27: for a non-empty pattern and a range starting at 0 or later, a found
\* match is a window of the form's length inside the sequence:
\* end = start + len(form) - 1 and 0 <= start <= end <= len(sequence) - 1.
C27_MatchInsideSequence ==
    (pc = "returned" /\ result.found /\ primer_seq # <<>> /\ start_range >= 0) =>
        /\ \A form \in Forms(primer_seq, is_reverse) :
               Val(result.end) = Val(result.start) + Len(form) - 1
        /\ 0 <= Val(result.start)
        /\ Val(result.start) <= Val(result.end)
        /\ Val(result.end) <= Len(seq) - 1

\* a two-base pattern found past the expected range, ending on the last
\* position of a sequence that holds a gap
C27_Witness ==
    /\ pc = "returned"
    /\ result.found
    /\ Len(primer_seq) = 2
    /\ 0 <= start_range /\ start_range <= end_range
    /\ ~GapFree(seq)
    /\ Val(result.start) > end_range
    /\ Val(result.end) = Len(seq) - 1

\* the three windows of a call as inclusive coordinate intervals, for an
\* expected range with 0 <= start <= end
WindowOf(pass) ==
    CASE pass = 1 -> [lo |-> start_range, hi |-> Min(end_range, Len(seq) - 1)]
      [] pass = 2 -> [lo |-> Max(0, start_range - 20),
                      hi |-> Min(Len(seq) - 1, end_range + 20)]
      [] pass = 3 -> [lo |-> 0, hi |-> Len(seq) - 1]

\* the candidate forms in the order of their priority
FormOrder ==
    IF is_reverse THEN <<reverse_complement(primer_seq), primer_seq>>
    ELSE <<primer_seq>>

\* form occurs in the sequence at coordinate i, wholly inside the window
OccursInside(form, w, i) ==
    /\ w.lo <= i
    /\ i + Len(form) - 1 <= w.hi
    /\ SubSeq(seq, i + 1, i + Len(form)) = form

\* every (pass, form, index) at which a form occurs inside a pass's window
MatchKeys ==
    {k \in (1..3) \X (1..Len(FormOrder)) \X (0..Len(seq)) :
        OccursInside(FormOrder[k[2]], WindowOf(k[1]), k[3])}

LexLess(a, b) ==
    \/ a[1] < b[1]
    \/ a[1] = b[1] /\ a[2] < b[2]
    \/ a[1] = b[1] /\ a[2] = b[2] /\ a[3] < b[3]

\* C25: the returned match is the least (pass, candidate form, start index)
\* at which a form matches: earliest pass first, then the reverse complement
\* before the pattern as-is, then the lowest index; nothing is found only
\* when no form matches in any pass.
C25_LexicographicPriority ==
    pc = "returned" =>
        /\ result.found <=> MatchKeys # {}
        /\ \A k \in MatchKeys :
               (\A other \in MatchKeys \ {k} : LexLess(k, other)) =>
                   /\ result.start = Some(k[3])
                   /\ result.end = Some(k[3] + Len(FormOrder[k[2]]) - 1)

\* inside the exact range the reverse complement is returned although the
\* pattern as-is occurs at a lower index, and the pattern as-is also occurs
\* behind the filler
C25_Witness ==
    /\ pc = "returned"
    /\ is_reverse
    /\ \E i \in 0..Len(seq) :
          /\ <<1, 1, i>> \in MatchKeys
          /\ \E j \in 0..(i - 1) : <<1, 2, j>> \in MatchKeys
          /\ result.start = Some(i)
    /\ \E i \in ExpandBy..Len(seq) : <<3, 2, i>> \in MatchKeys

\* the (form, index) pairs matching inside the window of one pass
KeysOfPass(pass) == {k \in MatchKeys : k[1] = pass}

\* C26: when no form matches inside the exact range but some form matches
\* wholly inside [max(0, start - 20), min(len - 1, end + 20)], the returned
\* match lies wholly inside that window and is the leftmost match of the
\* first matching form there; a returned match that lies partly outside the
\* window means that no form matches inside it.
C26_ExpandedRangePass ==
    pc = "returned" =>
        LET w == WindowOf(2)
        IN  /\ (KeysOfPass(1) = {} /\ KeysOfPass(2) # {}) =>
                   /\ result.found
                   /\ w.lo <= Val(result.start) /\ Val(result.end) <= w.hi
                   /\ \E k \in KeysOfPass(2) :
                         /\ result.start = Some(k[3])
                         /\ \A other \in KeysOfPass(2) :
                               k[2] <= other[2] /\ (k[2] = other[2] => k[3] <= other[3])
            /\ (result.found /\ (Val(result.start) < w.lo \/ Val(result.end) > w.hi)) =>
                   KeysOfPass(1) = {} /\ KeysOfPass(2) = {}

\* the expanded range begins behind the head: the match in the tail is
\* returned although the same form occurs at index 0, outside the window
C26_Witness ==
    /\ pc = "returned"
    /\ KeysOfPass(1) = {}
    /\ WindowOf(2).lo > 0
    /\ \E k \in KeysOfPass(2) :
          /\ result.start = Some(k[3])
          /\ k[3] > ExpandBy
          /\ <<3, k[2], 0>> \in MatchKeys

====
